---------------------------- MODULE Spec2Model ----------------------------
(***************************************************************************)
(* Node ordering of a single-flow drainage network (Braun & Willett 2013)  *)
(* as implemented in flow_accum_benchmarks.ipynb: the counting-sort        *)
(* adjacency builder _calculate_temp_arrays, the recursive stack builder   *)
(* _build_stack, the walking stack builder _build_stack_nr and the driver  *)
(* order_nodes_numba.                                                      *)
(*                                                                         *)
(* Arrays are functions on 0..len-1.  A trailing underscore marks an       *)
(* operator parameter that carries the source's name of a state variable.  *)
(***************************************************************************)
EXTENDS Integers, Sequences, FiniteSets

\* Largest number of nodes of an enumerated receiver array.
MaxN == 4

VARIABLES
    receivers,   \* order_nodes_numba: the receiver array (input)
    baselevels,  \* order_nodes_numba: the ordered root list (input)
    mode,        \* order_nodes_numba: "recursive" or "non-recursive" (input)
    pc,          \* position in order_nodes_numba / _build_stack_nr
    delta,       \* donor offsets, length np+1
    D,           \* flattened donors, length np
    s,           \* the stack order being built, length np
    stack_id,    \* root stamps, length np
    inc,         \* order_nodes_numba: the driver's write cursor
    k,           \* order_nodes_numba: 1-based position of the for loop in baselevels
    b,           \* _build_stack_nr: the root of the running call
    n,           \* _build_stack_nr: current node
    n_prev,      \* _build_stack_nr: previous node
    inc_nr,      \* _build_stack_nr: the call's own inc
    arg_inc,     \* the inc the last builder call was started with
    ret,         \* the value the last builder call returned
    wr,          \* history: the indices of s written by the last builder call, in order
    oob          \* history: _calculate_temp_arrays indexed outside an array

vars == <<receivers, baselevels, mode, pc, delta, D, s, stack_id, inc, k,
          b, n, n_prev, inc_nr, arg_inc, ret, wr, oob>>

-----------------------------------------------------------------------------
(* Arrays *)

Size(a) == Cardinality(DOMAIN a)

\* numpy.zeros(len, dtype=int)
zeros(len) == [i \in 0..(len - 1) |-> 0]

\* An index Python accepts for an array of length len: -len .. len-1.
InBounds(i, len) == (-len <= i) /\ (i < len)

\* Python's wraparound of a negative index.
Wrap(i, len) == IF i < 0 THEN i + len ELSE i

\* a[i] as the jitted code reads it: an index outside the array is not checked
\* and yields whatever lies there (g).
Load(a, i, g) == IF InBounds(i, Size(a)) THEN a[Wrap(i, Size(a))] ELSE g

\* a[i] = v as the jitted code writes it: a write outside the array does not
\* land in the array.
Store(a, i, v) ==
    IF InBounds(i, Size(a)) THEN [a EXCEPT ![Wrap(i, Size(a))] = v] ELSE a

-----------------------------------------------------------------------------
(* _calculate_temp_arrays *)

\* for i in range(np): nd[r[i]] += 1
RECURSIVE count_donors(_, _, _, _)
count_donors(r_, nd, i, g) ==
    IF i >= Size(r_) THEN nd
    ELSE count_donors(r_, Store(nd, r_[i], Load(nd, r_[i], g) + 1), i + 1, g)

\* for i in range(np - 1, -1, -1): delta[i] = delta[i + 1] - nd[i]
RECURSIVE fill_delta(_, _, _)
fill_delta(nd, delta_, i) ==
    IF i < 0 THEN delta_
    ELSE fill_delta(nd, [delta_ EXCEPT ![i] = delta_[i + 1] - nd[i]], i - 1)

\* for i in range(np): ri = r[i]; D[delta[ri] + w[ri]] = i; w[ri] += 1
RECURSIVE fill_donors(_, _, _, _, _, _)
fill_donors(r_, delta_, D_, w, i, g) ==
    IF i >= Size(r_) THEN D_
    ELSE LET ri == r_[i]
             at == Load(delta_, ri, g) + Load(w, ri, g)
         IN  fill_donors(r_, delta_, Store(D_, at, i),
                         Store(w, ri, Load(w, ri, g) + 1), i + 1, g)

\* Some access of the three passes falls outside its array.
RECURSIVE donors_oob(_, _, _, _, _)
donors_oob(r_, delta_, w, i, g) ==
    IF i >= Size(r_) THEN FALSE
    ELSE LET ri == r_[i]
             at == Load(delta_, ri, g) + Load(w, ri, g)
         IN  \/ ~InBounds(ri, Size(w))
             \/ ~InBounds(at, Size(r_))
             \/ donors_oob(r_, delta_, Store(w, ri, Load(w, ri, g) + 1), i + 1, g)

\* Scatter pass that walks the nodes downwards.
RECURSIVE fill_donors_desc(_, _, _, _, _, _)
fill_donors_desc(r_, delta_, D_, w, i, g) ==
    IF i < 0 THEN D_
    ELSE LET ri == r_[i]
             at == Load(delta_, ri, g) + Load(w, ri, g)
         IN  fill_donors_desc(r_, delta_, Store(D_, at, i),
                              Store(w, ri, Load(w, ri, g) + 1), i - 1, g)

calculate_temp_arrays_desc(r_, g) ==
    LET np == Size(r_)
        nd == count_donors(r_, zeros(np), 0, g)
        dl == fill_delta(nd, [zeros(np + 1) EXCEPT ![np] = np], np - 1)
    IN  [delta |-> dl,
         D     |-> fill_donors_desc(r_, dl, zeros(np), zeros(np), np - 1, g),
         oob   |-> FALSE]

\* The whole function on zero-initialised nd, delta, D, w.
calculate_temp_arrays(r_, g) ==
    LET np == Size(r_)
        nd == count_donors(r_, zeros(np), 0, g)
        dl == fill_delta(nd, [zeros(np + 1) EXCEPT ![np] = np], np - 1)
    IN  [delta |-> dl,
         D     |-> fill_donors(r_, dl, zeros(np), zeros(np), 0, g),
         oob   |-> \/ \E i \in DOMAIN r_ : ~InBounds(r_[i], np)
                   \/ donors_oob(r_, dl, zeros(np), 0, g)]

\* What an unchecked out-of-bounds read may yield.
Garbage == {-1, 0, 1}

\* order_nodes_numba up to the call of _calculate_temp_arrays.  An access
\* outside an array is undefined in the jitted build: the call either traps
\* or carries on with what Load and Store leave.
CalculateTempArrays ==
    /\ pc = "start"
    /\ \E g \in Garbage, trap \in BOOLEAN :
         LET t == calculate_temp_arrays(receivers, g)
         IN  /\ oob' = t.oob
             /\ IF t.oob /\ trap
                THEN /\ pc' = "error"
                     /\ UNCHANGED <<delta, D>>
                ELSE /\ pc' = "loop"
                     /\ delta' = t.delta
                     /\ D' = t.D
    /\ UNCHANGED <<receivers, baselevels, mode, s, stack_id, inc, k,
                   b, n, n_prev, inc_nr, arg_inc, ret, wr>>

-----------------------------------------------------------------------------
(* Inputs of the adjacency builder taken alone: any array, valid or not *)

\* Receiver values tried: every valid id, the first id past the end, and two
\* negative ones.
ReceiverValues(np) == (-2)..np

InitTemp ==
    /\ \E np \in 1..MaxN : receivers \in [0..(np - 1) -> ReceiverValues(np)]
    /\ baselevels = <<>>
    /\ mode = "recursive"
    /\ pc = "start"
    /\ delta = zeros(Size(receivers) + 1)
    /\ D = zeros(Size(receivers))
    /\ s = zeros(Size(receivers))
    /\ stack_id = [i \in DOMAIN receivers |-> -1]
    /\ inc = 0
    /\ k = 1
    /\ b = -1
    /\ n = -1
    /\ n_prev = -1
    /\ inc_nr = 0
    /\ arg_inc = 0
    /\ ret = -1
    /\ wr = <<>>
    /\ oob = FALSE

NextTemp == CalculateTempArrays

SpecTemp == InitTemp /\ [][NextTemp]_vars

-----------------------------------------------------------------------------
(* _build_stack *)

\* _build_stack whose loop drops the position a donor's call returns.
RECURSIVE build_stack_unchained(_, _, _, _, _)
RECURSIVE build_stack_unchained_for(_, _, _, _, _, _)
build_stack_unchained_for(n_, D_, delta_, st, inc_, i) ==
    IF i >= delta_[n_ + 1] THEN [s |-> st.s, wr |-> st.wr, inc |-> inc_]
    ELSE LET m == D_[i]
         IN  IF m # n_
             THEN LET sub == build_stack_unchained(m, D_, delta_, st, inc_ + 1)
                  IN  build_stack_unchained_for(n_, D_, delta_,
                          [s |-> sub.s, wr |-> sub.wr], inc_, i + 1)
             ELSE build_stack_unchained_for(n_, D_, delta_, st, inc_, i + 1)

build_stack_unchained(n_, D_, delta_, st, inc_) ==
    build_stack_unchained_for(n_, D_, delta_,
        [s |-> Store(st.s, inc_, n_), wr |-> Append(st.wr, inc_)],
        inc_, delta_[n_])

\* _build_stack that returns one past the last position it wrote.
RECURSIVE build_stack_next(_, _, _, _, _)
RECURSIVE build_stack_next_for(_, _, _, _, _, _)
build_stack_next_for(n_, D_, delta_, st, inc_, i) ==
    IF i >= delta_[n_ + 1] THEN [s |-> st.s, wr |-> st.wr, inc |-> inc_ + 1]
    ELSE LET m == D_[i]
         IN  IF m # n_
             THEN LET sub == build_stack_next(m, D_, delta_, st, inc_ + 1)
                  IN  build_stack_next_for(n_, D_, delta_,
                          [s |-> sub.s, wr |-> sub.wr], sub.inc, i + 1)
             ELSE build_stack_next_for(n_, D_, delta_, st, inc_, i + 1)

build_stack_next(n_, D_, delta_, st, inc_) ==
    build_stack_next_for(n_, D_, delta_,
        [s |-> Store(st.s, inc_, n_), wr |-> Append(st.wr, inc_)],
        inc_, delta_[n_])

RECURSIVE build_stack(_, _, _, _, _)
RECURSIVE build_stack_for(_, _, _, _, _, _)

\* for i in range(delta[n], delta[n + 1]): m = D[i]
\*     if m != n: inc = _build_stack(m, D, delta, s, inc + 1)
\* return inc
build_stack_for(n_, D_, delta_, st, inc_, i) ==
    IF i >= delta_[n_ + 1] THEN [s |-> st.s, wr |-> st.wr, inc |-> inc_]
    ELSE LET m == D_[i]
         IN  IF m # n_
             THEN LET sub == build_stack(m, D_, delta_, st, inc_ + 1)
                  IN  build_stack_for(n_, D_, delta_,
                          [s |-> sub.s, wr |-> sub.wr], sub.inc, i + 1)
             ELSE build_stack_for(n_, D_, delta_, st, inc_, i + 1)

\* _build_stack(n, D, delta, s, inc): st holds s and the history of written
\* indices; the result holds both and the returned inc.
build_stack(n_, D_, delta_, st, inc_) ==
    build_stack_for(n_, D_, delta_,
        [s |-> Store(st.s, inc_, n_), wr |-> Append(st.wr, inc_)],
        inc_, delta_[n_])

-----------------------------------------------------------------------------
(* _build_stack_nr *)

\* The opening of _build_stack_nr without the stamp of the base level.
build_stack_nr_init_nostamp(b_, s_, stack_id_, inc_) ==
    [n |-> b_, n_prev |-> -1, inc |-> inc_,
     s |-> Store(s_, inc_, b_), stack_id |-> stack_id_, wr |-> <<inc_>>]

\* n_prev = -1; n = b; s[inc] = n; stack_id[n] = b
build_stack_nr_init(b_, s_, stack_id_, inc_) ==
    [n |-> b_, n_prev |-> -1, inc |-> inc_,
     s |-> Store(s_, inc_, b_),
     stack_id |-> [stack_id_ EXCEPT ![b_] = b_],
     wr |-> <<inc_>>]

\* A walk loop that never tests its exit.
nr_loop_forever(n_, n_prev_) == TRUE

\* while n != n_prev
nr_loop_cond(n_, n_prev_) == n_ # n_prev_

\* for i in range(delta[n], delta[n + 1]): m = D[i]; if stack_id[m] != b: ... break
\* The donor the scan stops at, or -1 when it runs to its end (mv_upstream False).
RECURSIVE first_unstamped(_, _, _, _, _)
first_unstamped(D_, stack_id_, b_, i, hi) ==
    IF i >= hi THEN -1
    ELSE IF stack_id_[D_[i]] # b_ THEN D_[i]
    ELSE first_unstamped(D_, stack_id_, b_, i + 1, hi)

\* One pass of the body of the walk loop over the call's locals.
build_stack_nr_body(loc, b_, r_, D_, delta_) ==
    LET m == first_unstamped(D_, loc.stack_id, b_, delta_[loc.n], delta_[loc.n + 1])
    IN  IF m # -1
        THEN [n |-> m, n_prev |-> loc.n, inc |-> loc.inc + 1,
              s |-> Store(loc.s, loc.inc + 1, m),
              stack_id |-> [loc.stack_id EXCEPT ![m] = b_],
              wr |-> Append(loc.wr, loc.inc + 1)]
        ELSE [loc EXCEPT !.n = r_[loc.n], !.n_prev = loc.n]

-----------------------------------------------------------------------------
(* order_nodes_numba *)

\* The inc the 'non-recursive' lambda hands to _build_stack_nr: the literal 0,
\* whatever inc the driver passes.
bstack_func_nr_inc(inc_) == 0

\* mode == 'recursive': inc = bstack_func(b, inc) + 1, the call taken whole.
CallBuildStack ==
    /\ pc = "loop"
    /\ mode = "recursive"
    /\ k <= Len(baselevels)
    /\ LET res == build_stack(baselevels[k], D, delta, [s |-> s, wr |-> <<>>], inc)
       IN  /\ s' = res.s
           /\ wr' = res.wr
           /\ ret' = res.inc
           /\ inc' = res.inc + 1
    /\ arg_inc' = inc
    /\ k' = k + 1
    /\ UNCHANGED <<receivers, baselevels, mode, pc, delta, D, stack_id,
                   b, n, n_prev, inc_nr, oob>>

\* mode == 'non-recursive': bstack_func(b, inc) enters _build_stack_nr.
EnterBuildStackNr ==
    /\ pc = "loop"
    /\ mode = "non-recursive"
    /\ k <= Len(baselevels)
    /\ LET loc == build_stack_nr_init(baselevels[k], s, stack_id,
                                      bstack_func_nr_inc(inc))
       IN  /\ n' = loc.n
           /\ n_prev' = loc.n_prev
           /\ inc_nr' = loc.inc
           /\ s' = loc.s
           /\ stack_id' = loc.stack_id
           /\ wr' = loc.wr
    /\ b' = baselevels[k]
    /\ arg_inc' = bstack_func_nr_inc(inc)
    /\ pc' = "walk"
    /\ UNCHANGED <<receivers, baselevels, mode, delta, D, inc, k, ret, oob>>

\* One iteration of the main loop of _build_stack_nr.
WalkStep ==
    /\ pc = "walk"
    /\ nr_loop_cond(n, n_prev)
    /\ LET loc == build_stack_nr_body(
                      [n |-> n, n_prev |-> n_prev, inc |-> inc_nr, s |-> s,
                       stack_id |-> stack_id, wr |-> wr],
                      b, receivers, D, delta)
       IN  /\ n' = loc.n
           /\ n_prev' = loc.n_prev
           /\ inc_nr' = loc.inc
           /\ s' = loc.s
           /\ stack_id' = loc.stack_id
           /\ wr' = loc.wr
    /\ UNCHANGED <<receivers, baselevels, mode, pc, delta, D, inc, k, b,
                   arg_inc, ret, oob>>

\* _build_stack_nr leaves its loop and returns inc; the driver adds 1.
ReturnBuildStackNr ==
    /\ pc = "walk"
    /\ ~nr_loop_cond(n, n_prev)
    /\ ret' = inc_nr
    /\ inc' = inc_nr + 1
    /\ k' = k + 1
    /\ pc' = "loop"
    /\ UNCHANGED <<receivers, baselevels, mode, delta, D, s, stack_id,
                   b, n, n_prev, inc_nr, arg_inc, wr, oob>>

\* The for loop over baselevels is exhausted: return s (and stack_id).
Return ==
    /\ pc = "loop"
    /\ k > Len(baselevels)
    /\ pc' = "done"
    /\ UNCHANGED <<receivers, baselevels, mode, delta, D, s, stack_id, inc, k,
                   b, n, n_prev, inc_nr, arg_inc, ret, wr, oob>>

-----------------------------------------------------------------------------
(* Inputs of the driver *)

\* The receiver reached from i after j moves downstream.
RECURSIVE Follow(_, _, _)
Follow(r_, i, j) == IF j = 0 THEN i ELSE Follow(r_, r_[i], j - 1)

\* The self-receiver nodes.
BaseNodes(r_) == {i \in DOMAIN r_ : r_[i] = i}

\* Every value is a node id and the only cycles are self-loops.
IsForest(r_) ==
    /\ \A i \in DOMAIN r_ : r_[i] \in DOMAIN r_
    /\ \A i \in DOMAIN r_ : Follow(r_, i, Size(r_)) \in BaseNodes(r_)

\* The orderings of a set of nodes.
Orderings(S) ==
    {q \in [1..Cardinality(S) -> S] : \A i, j \in DOMAIN q : q[i] = q[j] => i = j}

\* The root lists tried on r_: every ordering of its self-receivers, and every
\* single node designated as the one root.
RootLists(r_) == Orderings(BaseNodes(r_)) \cup {<<x>> : x \in DOMAIN r_}

FromSeq(q) == [i \in 0..(Len(q) - 1) |-> q[i + 1]]

\* The test cell's example of Braun & Willett, already shifted to 0-based ids.
test_receivers == FromSeq(<<1, 4, 1, 6, 4, 4, 5, 4, 6, 7>>)
test_baselevels == <<4>>
expected_order == FromSeq(<<4, 1, 0, 2, 5, 6, 3, 8, 7, 9>>)

\* What order_nodes_numba sets up before its first loop.
Fresh ==
    /\ mode \in {"recursive", "non-recursive"}
    /\ pc = "start"
    /\ delta = zeros(Size(receivers) + 1)
    /\ D = zeros(Size(receivers))
    /\ s = zeros(Size(receivers))
    /\ stack_id = [i \in DOMAIN receivers |-> -1]
    /\ inc = 0
    /\ k = 1
    /\ b = -1
    /\ n = -1
    /\ n_prev = -1
    /\ inc_nr = 0
    /\ arg_inc = 0
    /\ ret = -1
    /\ wr = <<>>
    /\ oob = FALSE

\* Every forest of up to MaxN nodes with every root list tried on it.
InitForests ==
    /\ \E np \in 1..MaxN :
         receivers \in {f \in [0..(np - 1) -> 0..(np - 1)] : IsForest(f)}
    /\ baselevels \in RootLists(receivers)
    /\ Fresh

\* The call of the test cell.
InitTest ==
    /\ receivers = test_receivers
    /\ baselevels = test_baselevels
    /\ Fresh

Init == InitForests \/ InitTest

Next ==
    \/ CalculateTempArrays
    \/ CallBuildStack
    \/ EnterBuildStackNr
    \/ WalkStep
    \/ ReturnBuildStackNr
    \/ Return

Spec == Init /\ [][Next]_vars

\* Once _build_stack_nr is reached the interpreter keeps running it and the
\* driver's loop around it: a step of them that can be taken is taken.
FairSpec ==
    /\ InitForests
    /\ [][Next]_vars
    /\ WF_vars(EnterBuildStackNr)
    /\ WF_vars(WalkStep)
    /\ WF_vars(ReturnBuildStackNr)
    /\ WF_vars(Return)

-----------------------------------------------------------------------------
(* Vocabulary of the properties *)

NodeIds == DOMAIN receivers

\* Every receiver value is a node id.
ValidReceivers == \A i \in NodeIds : receivers[i] \in NodeIds

\* baselevels names each self-receiver node exactly once.
NamesEachBaseOnce ==
    /\ Len(baselevels) = Cardinality(BaseNodes(receivers))
    /\ {baselevels[i] : i \in DOMAIN baselevels} = BaseNodes(receivers)

\* a holds every id of 0..len-1 exactly once.
IsPermutation(a) ==
    /\ \A i \in DOMAIN a : a[i] \in DOMAIN a
    /\ \A i, j \in DOMAIN a : a[i] = a[j] => i = j

\* The indices of s that hold node x.
Positions(x) == {i \in DOMAIN s : s[i] = x}

\* x and the nodes that reach x by following receivers.
Upstream(x) ==
    {y \in NodeIds : \E j \in 0..Size(receivers) : Follow(receivers, y, j) = x}

\* The self-receiver that x drains to.
RootOf(x) == Follow(receivers, x, Size(receivers))

\* The nodes whose receiver is x.
Donors(x) == {i \in NodeIds : receivers[i] = x}

\* The driver in mode 'recursive', run from a fresh s over the list roots.
RECURSIVE run_recursive(_, _, _, _, _, _)
run_recursive(D_, delta_, roots, i, s_, inc_) ==
    IF i > Len(roots) THEN s_
    ELSE LET res == build_stack(roots[i], D_, delta_, [s |-> s_, wr |-> <<>>], inc_)
         IN  run_recursive(D_, delta_, roots, i + 1, res.s, res.inc + 1)

\* The nodes the last builder call wrote, in the order of its writes.
Written == [i \in DOMAIN wr |-> s[wr[i]]]

-----------------------------------------------------------------------------
(* C1 *)

\* C1: for a forest and a root list naming each self-receiver once, the S
\* that order_nodes_numba returns holds every node id exactly once, in either
\* mode, two or more roots included.
C1_StackIsPermutation ==
    (pc = "done" /\ NamesEachBaseOnce) => IsPermutation(s)

(* C2 *)

\* C2: in the returned S every non-base node is stored, and at a strictly
\* larger index than its receiver, in either mode.
C2_ReceiverFirst ==
    (pc = "done" /\ NamesEachBaseOnce) =>
        \A i \in NodeIds :
            receivers[i] # i =>
                /\ Positions(i) # {}
                /\ Positions(receivers[i]) # {}
                /\ \A p \in Positions(i), q \in Positions(receivers[i]) : q < p

(* C3 *)

\* C3: mode 'non-recursive' returns the S that mode 'recursive' returns on the
\* same receivers and the same ordered root list, and on the test cell's
\* example with root 4 both return expected_order.
C3_ModesAgree ==
    /\ (pc = "done" /\ mode = "non-recursive" /\ NamesEachBaseOnce) =>
           s = run_recursive(D, delta, baselevels, 1, zeros(Size(receivers)), 0)
    /\ (pc = "done" /\ receivers = test_receivers /\ baselevels = test_baselevels) =>
           s = expected_order

(* C4 *)

\* C4: after _calculate_temp_arrays on receivers all in [0,N): delta[N] = N,
\* delta is non-decreasing, D is a permutation of 0..N-1, and for every r the
\* slice D[delta[r] .. delta[r+1]) is the donors of r in ascending order.
C4_TempArrays ==
    (pc \notin {"start", "error"} /\ ValidReceivers) =>
        LET np == Size(receivers)
        IN  /\ delta[np] = np
            /\ \A i \in 0..(np - 1) : delta[i] <= delta[i + 1]
            /\ IsPermutation(D)
            /\ \A x \in NodeIds :
                 /\ delta[x + 1] - delta[x] = Cardinality(Donors(x))
                 /\ {D[i] : i \in delta[x]..(delta[x + 1] - 1)} = Donors(x)
                 /\ \A i, j \in delta[x]..(delta[x + 1] - 1) : i < j => D[i] < D[j]

\* C4 witness: the builder has run on valid receivers with a cycle of two
\* nodes, a node with two donors, a node with none and a self-receiver.
C4_Witness ==
    /\ pc = "loop"
    /\ ValidReceivers
    /\ \E x \in NodeIds : receivers[x] = x
    /\ \E x \in NodeIds : Cardinality(Donors(x)) >= 2
    /\ \E x \in NodeIds : Donors(x) = {}
    /\ \E x, y \in NodeIds : x # y /\ receivers[x] = y /\ receivers[y] = x

(* C5 *)

\* C5: after the recursive builder has run once per self-receiver root, for
\* every node x the indices of S holding x and the nodes upstream of x are one
\* interval that starts at x's index, and of two donors of one receiver the
\* smaller's whole subtree lies before the larger's.
C5_SubtreeContiguous ==
    (pc = "done" /\ mode = "recursive" /\ NamesEachBaseOnce) =>
        /\ \A x \in NodeIds :
             \E p \in DOMAIN s :
                 /\ s[p] = x
                 /\ {i \in DOMAIN s : s[i] \in Upstream(x)}
                        = p..(p + Cardinality(Upstream(x)) - 1)
        /\ \A x, y \in NodeIds :
             (x < y /\ receivers[x] = receivers[y]
                    /\ receivers[x] # x /\ receivers[y] # y) =>
                 \A i, j \in DOMAIN s :
                     (s[i] \in Upstream(x) /\ s[j] \in Upstream(y)) => i < j

\* C5 witness: a finished recursive run in which a node has two donors besides
\* itself and the smaller donor has a donor of its own.
C5_Witness ==
    /\ pc = "done"
    /\ mode = "recursive"
    /\ NamesEachBaseOnce
    /\ \E x, y \in NodeIds :
         /\ x < y
         /\ receivers[x] = receivers[y]
         /\ receivers[x] # x
         /\ receivers[y] # y
         /\ Donors(x) # {}

(* C6 *)

\* A call of _build_stack has returned to the driver.
RecursiveCallReturned == mode = "recursive" /\ pc = "loop" /\ k > 1

\* C6 as stated: _build_stack returns the next free write position, inc plus
\* the number of nodes written, one past the last index written.
C6_ReturnsNextFree ==
    RecursiveCallReturned =>
        /\ ret = arg_inc + Len(wr)
        /\ ret = wr[Len(wr)] + 1

\* C6 as amended: _build_stack returns the index of the last entry it wrote,
\* inc plus the number of nodes written minus one, and no written index is
\* larger; the driver adds the 1 that makes it the next free position.
C6_ReturnsLastWritten ==
    RecursiveCallReturned =>
        /\ ret = arg_inc + Len(wr) - 1
        /\ ret = wr[Len(wr)]
        /\ \A i \in DOMAIN wr : wr[i] <= ret
        /\ inc = ret + 1

\* C6 witness: the call for a second root has returned after writing three
\* nodes or more.
C6_Witness ==
    /\ RecursiveCallReturned
    /\ arg_inc > 0
    /\ Len(wr) >= 3

(* C7 *)

\* C7: for one designated root b with R[b] != b, _build_stack_nr writes the
\* nodes _build_stack writes, at the same indices, and returns the same
\* value: b and nodes upstream of b only.
C7_NrMatchesRecursiveAtInnerRoot ==
    (/\ mode = "non-recursive"
     /\ pc = "loop"
     /\ k = 2
     /\ Len(baselevels) = 1
     /\ receivers[baselevels[1]] # baselevels[1]) =>
        LET rec == build_stack(baselevels[1], D, delta,
                               [s |-> zeros(Size(receivers)), wr |-> <<>>], arg_inc)
        IN  /\ s = rec.s
            /\ wr = rec.wr
            /\ ret = rec.inc
            /\ \A i \in DOMAIN wr : Written[i] \in Upstream(baselevels[1])

(* C8 *)

\* C8: on a forest, once the driver in mode 'non-recursive' reaches its loop
\* over the roots, every call of _build_stack_nr leaves its walk loop and the
\* driver's loop finishes; and a call writes no node twice.
C8_WalkTerminates ==
    /\ (mode = "non-recursive" /\ pc = "loop") ~> (pc = "done")
    /\ [](mode = "non-recursive" =>
            \A i, j \in DOMAIN wr : Written[i] = Written[j] => i = j)

\* C8 witness: a non-recursive run over two roots or more has finished on a
\* forest with a node that is not its own receiver.
C8_Witness ==
    /\ pc = "done"
    /\ mode = "non-recursive"
    /\ Len(baselevels) >= 2
    /\ \E i \in NodeIds : receivers[i] # i

(* C9 *)

\* C9: a receiver value outside [0,N) makes the ordering call fail: it does
\* not return from the adjacency builder with delta and D.  A run that indexed
\* outside an array is counted as failed, as a bounds-checked build fails it,
\* so only a silent return on in-bounds accesses refutes the claim.
C9_InvalidIndexFails ==
    (pc # "start" /\ ~ValidReceivers) => (pc = "error" \/ oob)

(* C10 *)

\* C10: after mode 'non-recursive' has processed every root, stack_id maps
\* each node to the self-receiver it drains to; and a stamp, once written, is
\* never replaced by a later root's traversal.
C10_StackIdIsRoot ==
    /\ []((pc = "done" /\ mode = "non-recursive" /\ NamesEachBaseOnce) =>
             \A x \in NodeIds : stack_id[x] = RootOf(x) /\ stack_id[x] # -1)
    /\ [][(mode = "non-recursive" /\ NamesEachBaseOnce) =>
             \A x \in NodeIds : stack_id[x] # -1 => stack_id'[x] = stack_id[x]]_vars

\* C10 witness: a non-recursive run over two roots or more has finished, the
\* last root's tree holding a node besides the root.
C10_Witness ==
    /\ pc = "done"
    /\ mode = "non-recursive"
    /\ NamesEachBaseOnce
    /\ Len(baselevels) >= 2
    /\ Donors(baselevels[Len(baselevels)]) # {baselevels[Len(baselevels)]}

=============================================================================
